---- MODULE Spec2Model ----
(***************************************************************************)
(* Model of src/quickpicks/remotesQuickPick.ts (vscode-gitlens):           *)
(*   OpenRemoteCommandQuickPickItem   (per-remote option, lines 16-43)     *)
(*   OpenRemotesCommandQuickPickItem  (consolidated option, lines 45-151)  *)
(*   RemotesQuickPick.show            (selection session, lines 153-181)   *)
(*                                                                         *)
(* Texts (labels, descriptions, shas, names) are sequences of chunks: the  *)
(* literal pieces of a template string and the interpolated values, in the *)
(* order the template concatenates them.  A sha is a sequence of one-char  *)
(* chunks, so that shortening it is taking a prefix.  An absent optional   *)
(* string is Undefined, which is also what a template prints for it.       *)
(***************************************************************************)
EXTENDS Integers, Sequences, FiniteSets, TLC

VARIABLES
    remotes,        \* the caller's GitRemote[] argument
    resource,       \* the caller's RemoteResource object (passed by reference)
    clipboard,      \* the caller's clipboard argument: "true", "false", "undefined"
    goBackCommand,  \* the caller's goBackCommand argument (an item or UndefinedItem)
    pc,             \* "idle", "awaiting" (show suspended in showQuickPick), "done"
    op,             \* the operation in progress or last completed
    before,         \* remotes and resource as they were when the operation was called
    description,    \* the local `description` of OpenRemotesCommandQuickPickItem
    selected,       \* index of the local `remote` picked at lines 101-107, 0 if undefined
    items,          \* the array handed to window.showQuickPick
    pick,           \* what window.showQuickPick resolved to
    quickPickCalls, \* number of window.showQuickPick requests made by the operation
    providerCalls,  \* provider.open / provider.copy calls made by the operation
    result          \* the value the operation returned (or Threw)

vars == <<remotes, resource, clipboard, goBackCommand, pc, op, before, description,
          selected, items, pick, quickPickCalls, providerCalls, result>>

----------------------------------------------------------------------------
(* Bounds of the model *)

MaxRemotes == 3

ShortShaLen == 2

----------------------------------------------------------------------------
(* Texts *)

Undefined == <<"undefined">>

Dash == <<"<dash>">>

Dot == <<"<dot>">>

Ellipsis == <<"<ellipsis>">>

Space == <<"<nbsp>">>

\* a TypeError raised while a text is being built poisons the text
TypeError == <<"<TypeError>">>

\* t occurs in s as a contiguous run of chunks
Contains(s, t) ==
    \E i \in 0..(Len(s) - Len(t)) : SubSeq(s, i + 1, i + Len(t)) = t

EndsWith(s, t) ==
    Len(s) >= Len(t) /\ SubSeq(s, Len(s) - Len(t) + 1, Len(s)) = t

StartsWith(s, t) ==
    Len(s) >= Len(t) /\ SubSeq(s, 1, Len(t)) = t

\* Strings.pad(s, before, after): s with `b` spaces before and `a` after
pad(s, b, a) ==
    [i \in 1..b |-> " "] \o s \o [i \in 1..a |-> " "]

\* GitService.shortenSha(sha): a fixed-length prefix of the sha
shortenSha(sha) ==
    IF sha = Undefined THEN Undefined
    ELSE SubSeq(sha, 1, IF Len(sha) < ShortShaLen THEN Len(sha) ELSE ShortShaLen)

\* paths.basename(fileName): the last segment of the path; not a string: TypeError
basename(fileName) ==
    IF fileName = Undefined THEN TypeError
    ELSE IF fileName = <<>> THEN <<>> ELSE <<fileName[Len(fileName)]>>

\* getNameFromRemoteResource(resource): the short noun of the resource variant
getNameFromRemoteResource(res) ==
    CASE res.type = "Branch" -> <<"Branch">>
      [] res.type = "Branches" -> <<"Branches">>
      [] res.type = "Commit" -> <<"Commit">>
      [] res.type = "File" -> <<"File">>
      [] res.type = "Repo" -> <<"Repository">>
      [] res.type = "Revision" -> <<"Revision">>
      [] OTHER -> <<>>

----------------------------------------------------------------------------
(* Data *)

ShaA == <<"a", "a", "1", "1">>

ShaB == <<"b", "b", "2", "2">>

ShaC == <<"c", "c", "3", "3">>

NoProvider == [defined |-> FALSE, name |-> Undefined, path |-> Undefined]

GitHub == [defined |-> TRUE, name |-> <<"GitHub">>, path |-> <<"org/repo">>]

GitLab == [defined |-> TRUE, name |-> <<"GitLab">>, path |-> <<"grp/repo">>]

Providers == {NoProvider, GitHub, GitLab}

GitRemotes == [provider : Providers, default : BOOLEAN]

RemoteLists == UNION {[1..n -> GitRemotes] : n \in 0..MaxRemotes}

FewRemoteLists ==
    { <<>>,
      <<[provider |-> GitHub, default |-> FALSE]>>,
      <<[provider |-> GitHub, default |-> FALSE], [provider |-> GitLab, default |-> TRUE]>>,
      <<[provider |-> GitLab, default |-> FALSE], [provider |-> NoProvider, default |-> FALSE]>> }

NoCommit ==
    [defined |-> FALSE, isFile |-> FALSE, status |-> "", sha |-> Undefined,
     previousSha |-> Undefined]

GitCommits ==
    {NoCommit} \cup
    [defined : {TRUE}, isFile : BOOLEAN, status : {"D", "M"}, sha : {ShaB, ShaC},
     previousSha : {ShaA, Undefined}]

\* commit.shortSha and commit.previousShortSha
shortSha(commit) == shortenSha(commit.sha)

previousShortSha(commit) == shortenSha(commit.previousSha)

FileNames == { <<"src", "a.ts">>, <<"b.ts">> }

Res(t, b, s, f, c) ==
    [type |-> t, branch |-> b, sha |-> s, fileName |-> f, commit |-> c]

Resources ==
    { Res("Branch", <<"main">>, Undefined, Undefined, NoCommit),
      Res("Branches", Undefined, Undefined, Undefined, NoCommit),
      Res("Repo", Undefined, Undefined, Undefined, NoCommit),
      Res("Unknown", Undefined, Undefined, Undefined, NoCommit) }
    \cup { Res("Commit", Undefined, s, Undefined, NoCommit) : s \in {ShaA, ShaB} }
    \cup { Res("File", Undefined, Undefined, f, NoCommit) : f \in FileNames }
    \cup { Res("Revision", Undefined, s, f, c) :
             s \in {Undefined, ShaA, ShaB}, f \in FileNames, c \in GitCommits }

FewResources ==
    { Res("Repo", Undefined, Undefined, Undefined, NoCommit),
      Res("File", Undefined, Undefined, <<"src", "a.ts">>, NoCommit),
      Res("Revision", Undefined, ShaB, <<"src", "a.ts">>,
          [defined |-> TRUE, isFile |-> TRUE, status |-> "D", sha |-> ShaC,
           previousSha |-> ShaA]) }

\* Items: options, plus the two non-option outcomes of an operation
Item(k, l, d, r, c, cmd, args) ==
    [kind |-> k, label |-> l, description |-> d, remote |-> r, clipboard |-> c,
     command |-> cmd, args |-> args]

NoRemote == [provider |-> NoProvider, default |-> FALSE]

UndefinedItem == Item("undefined", <<>>, <<>>, NoRemote, "undefined", "", <<>>)

Threw == Item("threw", <<>>, <<>>, NoRemote, "undefined", "", <<>>)

GoBackItem ==
    Item("GoBack", <<"$(arrow-left) Go back">>, <<>>, NoRemote, "undefined", "", <<>>)

----------------------------------------------------------------------------
(* OpenRemoteCommandQuickPickItem *)

Truthy(c) == c = "true"

\* the label built at lines 23-27
OpenRemoteLabel(remote, res, clip) ==
    IF Truthy(clip)
    THEN <<"$(link-external) Copy ">> \o getNameFromRemoteResource(res)
            \o <<" Url to Clipboard from ">> \o remote.provider.name
    ELSE <<"$(link-external) Open ">> \o getNameFromRemoteResource(res)
            \o <<" on ">> \o remote.provider.name

\* mutant: the constructor tolerates an absent provider and builds an option anyway
OpenRemoteItem_NoProviderCheck(remote, res, clip) ==
    Item("OpenRemote",
         OpenRemoteLabel(remote, res, clip),
         pad(Dash, 2, 3) \o <<" $(repo) ">> \o remote.provider.path,
         remote, clip, "", <<>>)

\* new OpenRemoteCommandQuickPickItem(remote, resource, clipboard):
\* reading remote.provider!.name of an absent provider throws a TypeError
OpenRemoteItem(remote, res, clip) ==
    IF ~remote.provider.defined THEN Threw
    ELSE Item("OpenRemote",
              OpenRemoteLabel(remote, res, clip),
              pad(Dash, 2, 3) \o <<" $(repo) ">> \o remote.provider.path,
              remote, clip, "", <<>>)

\* mutant: execute ignores the clipboard flag
ExecuteOp_AlwaysOpen(item) == "open"

\* execute(): which provider operation the option triggers
ExecuteOp(item) == IF Truthy(item.clipboard) THEN "copy" ELSE "open"

\* execute(): the call made, on this.remote.provider with this.resource
ExecuteCall(item, res) ==
    [provider |-> item.remote.provider, op |-> ExecuteOp(item), resource |-> res]

----------------------------------------------------------------------------
(* OpenRemotesCommandQuickPickItem *)

\* mutant: the isFile test is dropped
IsFileCommit_AnyCommit(res) == res.commit.defined

IsFileCommit(res) == res.commit.defined /\ res.commit.isFile

\* mutant: the deleted case also takes the commit's own sha
RevisionSha_AlwaysCommitSha(res) ==
    IF res.commit.defined /\ res.commit.isFile THEN res.commit.sha ELSE res.sha

\* the sha the Revision case leaves in resource.sha (lines 72-93)
RevisionSha(res) ==
    IF IsFileCommit(res)
    THEN IF res.commit.status = "D" THEN res.commit.previousSha ELSE res.commit.sha
    ELSE res.sha

\* the resource object after the switch at lines 50-99
DescribedResource(res) ==
    IF res.type = "Revision" THEN [res EXCEPT !.sha = RevisionSha(res)] ELSE res

\* mutant: the sha of a Revision without commit is shortened and printed unguarded
RevisionDescription_NoShaGuard(res) ==
    IF res.commit.defined /\ res.commit.isFile
    THEN IF res.commit.status = "D"
         THEN <<"$(file-text) ">> \o basename(res.fileName) \o <<" in ">> \o Space
                \o <<"$(git-commit) ">> \o previousShortSha(res.commit)
                \o <<" (deleted in ">> \o Space \o <<"$(git-commit) ">>
                \o shortSha(res.commit) \o <<")">>
         ELSE <<"$(file-text) ">> \o basename(res.fileName) \o <<" in ">> \o Space
                \o <<"$(git-commit) ">> \o shortSha(res.commit)
    ELSE <<"$(file-text) ">> \o basename(res.fileName)
            \o <<" in ">> \o Space \o <<"$(git-commit) ">> \o shortenSha(res.sha)

\* the text of the Revision case (lines 71-94)
RevisionDescription(res) ==
    IF IsFileCommit(res)
    THEN IF res.commit.status = "D"
         THEN <<"$(file-text) ">> \o basename(res.fileName) \o <<" in ">> \o Space
                \o <<"$(git-commit) ">> \o previousShortSha(res.commit)
                \o <<" (deleted in ">> \o Space \o <<"$(git-commit) ">>
                \o shortSha(res.commit) \o <<")">>
         ELSE <<"$(file-text) ">> \o basename(res.fileName) \o <<" in ">> \o Space
                \o <<"$(git-commit) ">> \o shortSha(res.commit)
    ELSE LET shortFileSha == IF res.sha = Undefined THEN <<>> ELSE shortenSha(res.sha)
         IN  <<"$(file-text) ">> \o basename(res.fileName)
                \o (IF shortFileSha # <<>>
                    THEN <<" in ">> \o Space \o <<"$(git-commit) ">> \o shortFileSha
                    ELSE <<>>)

\* the local `description` computed by the switch at lines 49-99
Description(res) ==
    CASE res.type = "Branch" -> <<"$(git-branch) ">> \o res.branch
      [] res.type = "Branches" -> <<"$(git-branch) Branches">>
      [] res.type = "Commit" -> <<"$(git-commit) ">> \o shortenSha(res.sha)
      [] res.type = "File" -> <<"$(file-text) ">> \o basename(res.fileName)
      [] res.type = "Repo" -> <<"$(repo) Repository">>
      [] res.type = "Revision" -> RevisionDescription(res)
      [] OTHER -> <<>>

\* mutant: the last flagged remote is found instead of the first
FindDefault_Last(rs) ==
    IF \E i \in 1..Len(rs) : rs[i].default
    THEN CHOOSE i \in 1..Len(rs) :
            rs[i].default /\ \A j \in (i + 1)..Len(rs) : ~rs[j].default
    ELSE 0

\* remotes.find(r => r.default): index of the first flagged remote, 0 if none
FindDefault(rs) ==
    IF \E i \in 1..Len(rs) : rs[i].default
    THEN CHOOSE i \in 1..Len(rs) :
            rs[i].default /\ \A j \in 1..(i - 1) : ~rs[j].default
    ELSE 0

\* the local `remote` after lines 101-107, as an index into remotes (0: undefined)
SelectRemote(rs) ==
    IF Len(rs) > 1 THEN FindDefault(rs)
    ELSE IF Len(rs) = 1 THEN 1
    ELSE 0

\* mutant: the names are compared without testing that the provider exists
ProviderName_NoProviderCheck(rs) ==
    IF \A i \in 1..Len(rs) : rs[i].provider.name = rs[1].provider.name
    THEN rs[1].provider.name
    ELSE <<"Remote">>

\* the local `provider` of lines 131-135, for a non-empty list
ProviderName(rs) ==
    IF \A i \in 1..Len(rs) :
          rs[i].provider.defined /\ rs[i].provider.name = rs[1].provider.name
    THEN rs[1].provider.name
    ELSE <<"Remote">>

\* new OpenRemotesCommandQuickPickItem(remotes, resource, goBackCommand)
OpenRemotesItem(rs, res, goBack) ==
    LET name == getNameFromRemoteResource(res)
        desc == Description(res)
        sel  == SelectRemote(rs)
    IN  IF Contains(desc, TypeError) THEN Threw
        ELSE IF sel # 0
        THEN IF ~rs[sel].provider.defined THEN Threw
             ELSE Item("OpenRemotes",
                       <<"$(link-external) Open ">> \o name \o <<" on ">>
                          \o rs[sel].provider.name,
                       pad(Dash, 2, 3) \o <<" $(repo) ">> \o rs[sel].provider.path
                          \o <<" ">> \o pad(Dot, 1, 1) \o <<" ">> \o desc,
                       NoRemote, "undefined", "gitlens.openInRemote", <<rs, goBack>>)
        ELSE IF Len(rs) = 0 THEN Threw
             ELSE Item("OpenRemotes",
                       <<"$(link-external) Open ">> \o name \o <<" on ">>
                          \o ProviderName(rs) \o Ellipsis,
                       pad(Dash, 2, 3) \o <<" ">> \o desc,
                       NoRemote, "undefined", "gitlens.openInRemote", <<rs, goBack>>)

----------------------------------------------------------------------------
(* RemotesQuickPick.show *)

\* remotes.map(r => new OpenRemoteCommandQuickPickItem(r, resource, clipboard))
MapRemotes(rs, res, clip) ==
    [i \in 1..Len(rs) |-> OpenRemoteItem(rs[i], res, clip)]

\* the map throws as soon as one constructor throws
MapThrows(rs, res, clip) ==
    \E i \in 1..Len(rs) : OpenRemoteItem(rs[i], res, clip) = Threw

\* mutant: the back option is pushed after the per-remote options
ShowItems_BackLast(rs, res, clip, goBack) ==
    IF goBack.kind # "undefined"
    THEN MapRemotes(rs, res, clip) \o <<goBack>>
    ELSE MapRemotes(rs, res, clip)

\* the items array after lines 161-167
ShowItems(rs, res, clip, goBack) ==
    IF goBack.kind # "undefined"
    THEN <<goBack>> \o MapRemotes(rs, res, clip)
    ELSE MapRemotes(rs, res, clip)

\* what window.showQuickPick can resolve to: one of the items, or undefined
QuickPickOutcomes(its) == {its[i] : i \in 1..Len(its)} \cup {UndefinedItem}

\* mutant: a cancelled presentation falls back to the back option
ShowReturn_BackOnCancel(p) == IF p = UndefinedItem THEN GoBackItem ELSE p

\* the value show returns for a given pick (lines 175-179)
ShowReturn(p) == IF p = UndefinedItem THEN UndefinedItem ELSE p

----------------------------------------------------------------------------
(* State machine *)

Snapshot == [remotes |-> remotes, resource |-> resource]

NoSnapshot == [remotes |-> <<>>, resource |-> Res("Unknown", Undefined, Undefined, Undefined, NoCommit)]

InitCall ==
    /\ pc = "idle"
    /\ op = "none"
    /\ before = NoSnapshot
    /\ description = <<>>
    /\ selected = 0
    /\ items = <<>>
    /\ pick = UndefinedItem
    /\ quickPickCalls = 0
    /\ providerCalls = <<>>
    /\ result = UndefinedItem

\* wide choice of remotes lists, few resources
Init ==
    /\ remotes \in RemoteLists
    /\ resource \in FewResources
    /\ clipboard \in {"true", "false", "undefined"}
    /\ goBackCommand \in {GoBackItem, UndefinedItem}
    /\ InitCall

\* every resource, few remotes lists
InitDescribe ==
    /\ remotes \in FewRemoteLists
    /\ resource \in Resources
    /\ clipboard \in {"true", "undefined"}
    /\ goBackCommand \in {GoBackItem, UndefinedItem}
    /\ InitCall

\* the caller constructs a per-remote option for one of its remotes
NewOpenRemote ==
    /\ pc = "idle"
    /\ \E i \in 1..Len(remotes) :
          result' = OpenRemoteItem(remotes[i], resource, clipboard)
    /\ pc' = "done"
    /\ op' = "newOpenRemote"
    /\ before' = Snapshot
    /\ UNCHANGED <<remotes, resource, clipboard, goBackCommand, description, selected,
                   items, pick, quickPickCalls, providerCalls>>

\* the caller constructs the consolidated option
NewOpenRemotes ==
    /\ pc = "idle"
    /\ description' = Description(resource)
    /\ resource' = DescribedResource(resource)
    /\ selected' = SelectRemote(remotes)
    /\ result' = OpenRemotesItem(remotes, resource, goBackCommand)
    /\ pc' = "done"
    /\ op' = "newOpenRemotes"
    /\ before' = Snapshot
    /\ UNCHANGED <<remotes, clipboard, goBackCommand, items, pick, quickPickCalls,
                   providerCalls>>

\* show, up to its suspension in window.showQuickPick (lines 161-174)
ShowBegin ==
    /\ pc = "idle"
    /\ op' = "show"
    /\ before' = Snapshot
    /\ IF MapThrows(remotes, resource, clipboard)
       THEN /\ pc' = "done"
            /\ result' = Threw
            /\ UNCHANGED <<items, quickPickCalls>>
       ELSE /\ pc' = "awaiting"
            /\ items' = ShowItems(remotes, resource, clipboard, goBackCommand)
            /\ quickPickCalls' = quickPickCalls + 1
            /\ UNCHANGED result
    /\ UNCHANGED <<remotes, resource, clipboard, goBackCommand, description, selected,
                   pick, providerCalls>>

\* mutant: show executes the picked per-remote option before returning it
ShowEnd_ExecutesPick ==
    /\ pc = "awaiting"
    /\ \E p \in QuickPickOutcomes(items) :
          /\ pick' = p
          /\ result' = ShowReturn(p)
          /\ providerCalls' =
                IF p.kind = "OpenRemote"
                THEN Append(providerCalls, ExecuteCall(p, resource))
                ELSE providerCalls
    /\ pc' = "done"
    /\ UNCHANGED <<remotes, resource, clipboard, goBackCommand, op, before, description,
                   selected, items, quickPickCalls>>

\* window.showQuickPick resolves and show returns (lines 175-179)
ShowEnd ==
    /\ pc = "awaiting"
    /\ \E p \in QuickPickOutcomes(items) :
          /\ pick' = p
          /\ result' = ShowReturn(p)
    /\ pc' = "done"
    /\ UNCHANGED <<remotes, resource, clipboard, goBackCommand, op, before, description,
                   selected, items, quickPickCalls, providerCalls>>

\* the caller executes the per-remote option it holds (lines 38-42)
Execute ==
    /\ pc = "done"
    /\ op \in {"newOpenRemote", "show"}
    /\ result.kind = "OpenRemote"
    /\ providerCalls' = Append(providerCalls, ExecuteCall(result, resource))
    /\ op' = "execute"
    /\ before' = Snapshot
    /\ UNCHANGED <<remotes, resource, clipboard, goBackCommand, pc, description, selected,
                   items, pick, quickPickCalls, result>>

\* the caller is done with the outcome and may call again with the same arguments
Return ==
    /\ pc = "done"
    /\ pc' = "idle"
    /\ op' = "none"
    /\ before' = NoSnapshot
    /\ description' = <<>>
    /\ selected' = 0
    /\ items' = <<>>
    /\ pick' = UndefinedItem
    /\ quickPickCalls' = 0
    /\ providerCalls' = <<>>
    /\ result' = UndefinedItem
    /\ UNCHANGED <<remotes, resource, clipboard, goBackCommand>>

Next ==
    \/ NewOpenRemote
    \/ NewOpenRemotes
    \/ ShowBegin
    \/ ShowEnd
    \/ Execute
    \/ Return

Spec == Init /\ [][Next]_vars

SpecDescribe == InitDescribe /\ [][Next]_vars

----------------------------------------------------------------------------
(* Properties *)

HasProvider(r) == r.provider.defined

Mixed(rs) ==
    /\ \E i \in 1..Len(rs) : HasProvider(rs[i])
    /\ \E i \in 1..Len(rs) : ~HasProvider(rs[i])

\* the per-remote options among the items handed to window.showQuickPick
PerRemoteOptions(its) == SelectSeq(its, LAMBDA it : it.kind = "OpenRemote")

ShowPresented == op = "show" /\ quickPickCalls = 1

\* C1 (as claimed): for a remotes list mixing remotes with and without a provider,
\* show does not fail, hands the presentation one option for every remote that has
\* a provider, in order, and none for a remote that lacks one.
C1_ProviderlessSilentlyExcluded ==
    (op = "show" /\ Mixed(remotes)) =>
        /\ result # Threw
        /\ quickPickCalls = 1
        /\ LET with == SelectSeq(remotes, HasProvider)
               opts == PerRemoteOptions(items)
           IN  /\ Len(opts) = Len(with)
               /\ \A i \in 1..Len(opts) : opts[i].remote = with[i]

\* C1 (amended): no option for a remote lacking a provider is ever handed to the
\* presentation, and when every remote has a provider each one gets its option;
\* but a remote lacking a provider is not skipped: it makes show fail before
\* anything is presented.
C1_ProviderlessMakesShowFail ==
    op = "show" =>
        /\ \A i \in 1..Len(items) : items[i].kind = "OpenRemote" => HasProvider(items[i].remote)
        /\ (\E i \in 1..Len(remotes) : ~HasProvider(remotes[i])) =>
              (pc = "done" /\ result = Threw /\ quickPickCalls = 0 /\ items = <<>>)
        /\ (\A i \in 1..Len(remotes) : HasProvider(remotes[i])) =>
              /\ result # Threw
              /\ quickPickCalls = 1
              /\ \A i \in 1..Len(remotes) :
                    \E k \in 1..Len(items) :
                        items[k].kind = "OpenRemote" /\ items[k].remote = remotes[i]

C1_Witness ==
    /\ op = "show"
    /\ pc = "done"
    /\ Mixed(remotes)
    /\ result = Threw
    /\ items = <<>>

\* C2: the consolidated option implicitly selects the only remote of a one-remote
\* list whatever its default flag, the first flagged remote of a longer list, and
\* no remote when a longer list has none flagged; the option built for a selected
\* remote is labelled with that remote's provider name, without ellipsis, and its
\* description holds that remote's provider path followed by the resource
\* description.
C2_ImplicitlySelectedRemote ==
    op = "newOpenRemotes" =>
        LET n == Len(remotes)
            flagged == {i \in 1..n : remotes[i].default}
        IN  /\ n = 1 => selected = 1
            /\ (n > 1 /\ flagged # {}) =>
                  (selected \in flagged /\ \A j \in flagged : selected <= j)
            /\ (n > 1 /\ flagged = {}) => selected = 0
            /\ (selected # 0 /\ result.kind = "OpenRemotes") =>
                  LET p == remotes[selected].provider
                  IN  /\ EndsWith(result.label, <<" on ">> \o p.name)
                      /\ ~Contains(result.label, Ellipsis)
                      /\ Contains(result.description,
                                  p.path \o <<" ">> \o pad(Dot, 1, 1) \o <<" ">> \o description)
                      /\ EndsWith(result.description, description)
            /\ (selected # 0 /\ HasProvider(remotes[selected])) => result.kind = "OpenRemotes"

C2_Witness ==
    /\ op = "newOpenRemotes"
    /\ Len(remotes) = 3
    /\ ~remotes[1].default
    /\ remotes[2].default
    /\ remotes[3].default
    /\ remotes[2].provider = GitLab
    /\ remotes[3].provider = GitHub
    /\ selected = 2
    /\ result.kind = "OpenRemotes"

\* C3: for two or more remotes, none flagged default, the label names the shared
\* provider name exactly when every remote has a provider and all the names are
\* equal, and "Remote" otherwise; it ends with the ellipsis glyph, and the
\* description is the separator and the resource description, with no provider path.
C3_SharedProviderNameOrRemote ==
    (op = "newOpenRemotes" /\ Len(remotes) >= 2
        /\ \A i \in 1..Len(remotes) : ~remotes[i].default) =>
        LET n == Len(remotes)
            shared == /\ \A i \in 1..n : HasProvider(remotes[i])
                      /\ \A i, j \in 1..n : remotes[i].provider.name = remotes[j].provider.name
            shown == IF shared THEN remotes[1].provider.name ELSE <<"Remote">>
        IN  /\ result.kind = "OpenRemotes"
            /\ result.label = <<"$(link-external) Open ">>
                                 \o getNameFromRemoteResource(before.resource)
                                 \o <<" on ">> \o shown \o Ellipsis
            /\ (shown = <<"Remote">>) <=> ~shared
            /\ EndsWith(result.label, Ellipsis)
            /\ result.description = pad(Dash, 2, 3) \o <<" ">> \o description
            /\ \A i \in 1..n :
                  HasProvider(remotes[i]) => ~Contains(result.description, remotes[i].provider.path)

C3_Witness ==
    /\ op = "newOpenRemotes"
    /\ Len(remotes) = 3
    /\ \A i \in 1..3 : ~remotes[i].default
    /\ remotes[1].provider = GitHub
    /\ remotes[2].provider = GitLab
    /\ remotes[3].provider = GitHub
    /\ Contains(result.label, <<"Remote">> \o Ellipsis)

\* C4: after describing a Revision whose commit exists and is a file-content
\* record, resource.sha is the commit's previous sha when the status is deleted and
\* the commit's own sha otherwise, whatever sha it carried and whatever the remotes
\* are; in the deleted case the description holds the short previous sha and, in a
\* "(deleted in ...)" annotation, the short current sha.
C4_RevisionShaReassigned ==
    (op = "newOpenRemotes" /\ before.resource.type = "Revision"
        /\ before.resource.commit.defined /\ before.resource.commit.isFile) =>
        LET c == before.resource.commit
        IN  IF c.status = "D"
            THEN /\ resource.sha = c.previousSha
                 /\ Contains(description, <<"$(git-commit) ">> \o shortenSha(c.previousSha))
                 /\ Contains(description,
                             <<" (deleted in ">> \o Space \o <<"$(git-commit) ">>
                                \o shortenSha(c.sha) \o <<")">>)
            ELSE /\ resource.sha = c.sha
                 /\ Contains(description, <<"$(git-commit) ">> \o shortenSha(c.sha))

C4_Witness ==
    /\ op = "newOpenRemotes"
    /\ before.resource.type = "Revision"
    /\ before.resource.commit.defined
    /\ before.resource.commit.isFile
    /\ before.resource.commit.status = "D"
    /\ before.resource.sha = ShaB
    /\ before.resource.commit.previousSha = ShaA
    /\ resource.sha = ShaA
    /\ result = Threw

Called == pc # "idle"

\* C5 (as claimed): no operation changes the caller's remotes, and the only change
\* to the caller's resource is that a Revision whose commit indicates deletion gets
\* its sha overwritten with the commit's previous sha.
C5_OnlyDeletionOverwritesSha ==
    Called =>
        /\ remotes = before.remotes
        /\ resource # before.resource =>
              /\ before.resource.type = "Revision"
              /\ before.resource.commit.defined
              /\ before.resource.commit.status = "D"
              /\ resource = [before.resource EXCEPT !.sha = before.resource.commit.previousSha]

\* C5 (amended): no operation changes the caller's remotes, and the only change to
\* the caller's resource is made by the consolidated option on a Revision whose
\* commit exists and is a file-content record: its sha is overwritten with the
\* commit's previous sha when the commit is a deletion and with the commit's own
\* sha otherwise.
C5_OnlyFileCommitOverwritesSha ==
    Called =>
        /\ remotes = before.remotes
        /\ resource # before.resource =>
              /\ op = "newOpenRemotes"
              /\ before.resource.type = "Revision"
              /\ before.resource.commit.defined
              /\ before.resource.commit.isFile
              /\ resource = [before.resource EXCEPT !.sha =
                                IF before.resource.commit.status = "D"
                                THEN before.resource.commit.previousSha
                                ELSE before.resource.commit.sha]

C5_Witness ==
    /\ op = "newOpenRemotes"
    /\ before.resource.type = "Revision"
    /\ before.resource.commit.defined
    /\ before.resource.commit.isFile
    /\ before.resource.commit.status = "M"
    /\ before.resource.sha = ShaA
    /\ resource.sha = before.resource.commit.sha
    /\ resource # before.resource

\* C6: show returns undefined exactly when the presentation returned no selection,
\* and otherwise returns the very item the presentation returned, which is one of
\* the presented options; undefined is none of the presented options.
C6_ShowReturnsPickOrUndefined ==
    (ShowPresented /\ pc = "done") =>
        /\ (result = UndefinedItem) <=> (pick = UndefinedItem)
        /\ pick # UndefinedItem =>
              (result = pick /\ \E i \in 1..Len(items) : items[i] = result)
        /\ \A i \in 1..Len(items) : items[i] # UndefinedItem
        /\ result # Threw

C6_Witness ==
    /\ ShowPresented
    /\ pc = "done"
    /\ Len(remotes) = 0
    /\ items = <<GoBackItem>>
    /\ pick = GoBackItem
    /\ result = GoBackItem

\* C7: the items handed to the presentation are the back option first when one was
\* supplied (and no back option otherwise), then one option per remote in the
\* order of the caller's remotes list.
C7_ItemsInRemoteOrder ==
    ShowPresented =>
        LET off == IF goBackCommand # UndefinedItem THEN 1 ELSE 0
        IN  /\ Len(items) = Len(remotes) + off
            /\ off = 1 => items[1] = goBackCommand
            /\ off = 0 => \A k \in 1..Len(items) : items[k].kind # "GoBack"
            /\ \A i \in 1..Len(remotes) :
                  /\ items[i + off].kind = "OpenRemote"
                  /\ items[i + off].remote = remotes[i]
                  /\ items[i + off].clipboard = clipboard

C7_Witness ==
    /\ ShowPresented
    /\ goBackCommand = GoBackItem
    /\ Len(remotes) = 3
    /\ remotes[1].provider = GitLab
    /\ remotes[2].provider = GitHub
    /\ remotes[3].provider = GitLab
    /\ Len(items) = 4
    /\ items[1] = GoBackItem
    /\ items[3].remote = remotes[2]

\* C8: the description is computed without error for every resource variant, also
\* with the optional sha and commit of a Revision absent; a Revision without sha
\* and commit is described by its base file name with no " in <sha>" suffix, and a
\* resource of unknown type by the empty text.
C8_DescriptionTotal ==
    op = "newOpenRemotes" =>
        LET r == before.resource
        IN  /\ ~Contains(description, TypeError)
            /\ result = Threw =>
                  \/ Len(remotes) = 0
                  \/ (selected # 0 /\ ~HasProvider(remotes[selected]))
            /\ r.type \in {"Branch", "Branches", "Commit", "File", "Repo", "Revision"} =>
                  description # <<>>
            /\ (r.type = "Revision" /\ r.sha = Undefined /\ ~r.commit.defined) =>
                  /\ description = <<"$(file-text) ", r.fileName[Len(r.fileName)]>>
                  /\ ~Contains(description, <<" in ">>)
                  /\ resource = r
            /\ r.type = "Unknown" => description = <<>>

C8_Witness ==
    /\ op = "newOpenRemotes"
    /\ before.resource.type = "Revision"
    /\ before.resource.sha = Undefined
    /\ ~before.resource.commit.defined
    /\ description = <<"$(file-text) ", "a.ts">>
    /\ result.kind = "OpenRemotes"

\* C9: show makes exactly one request to the presentation, and triggers no provider
\* open or copy, whatever the user does; the chosen option is returned unexecuted.
C9_OneRequestNoProviderCall ==
    op = "show" =>
        /\ providerCalls = <<>>
        /\ quickPickCalls <= 1
        /\ pc = "awaiting" => quickPickCalls = 1
        /\ (pc = "done" /\ result # Threw) => quickPickCalls = 1

C9_Witness ==
    /\ op = "show"
    /\ pc = "done"
    /\ result.kind = "OpenRemote"
    /\ quickPickCalls = 1
    /\ providerCalls = <<>>

\* C10: executing a per-remote option makes exactly one provider call, on the
\* provider of the remote the option was built for and with the caller's resource:
\* copy when it was built with clipboard true, open when false or absent; the verb
\* of the label agrees with the call.
C10_ExecuteCallsOwnProvider ==
    op = "execute" =>
        /\ Len(providerCalls) = 1
        /\ providerCalls[1].provider = result.remote.provider
        /\ providerCalls[1].resource = resource
        /\ \E i \in 1..Len(remotes) : remotes[i] = result.remote
        /\ EndsWith(result.label, result.remote.provider.name)
        /\ result.clipboard = clipboard
        /\ IF clipboard = "true"
           THEN /\ providerCalls[1].op = "copy"
                /\ StartsWith(result.label, <<"$(link-external) Copy ">>)
                /\ Contains(result.label, <<" Url to Clipboard from ">>)
           ELSE /\ providerCalls[1].op = "open"
                /\ StartsWith(result.label, <<"$(link-external) Open ">>)
                /\ Contains(result.label, <<" on ">>)

C10_Witness ==
    /\ op = "execute"
    /\ clipboard = "true"
    /\ Len(remotes) = 2
    /\ remotes[1].provider = GitHub
    /\ remotes[2].provider = GitLab
    /\ result.remote = remotes[2]
    /\ providerCalls = <<[provider |-> GitLab, op |-> "copy", resource |-> resource]>>

====
